---- MODULE Spec2Model ----
(***************************************************************************)
(* A model of the Enhanced Auto-Committer (src/auto_committer.py): the     *)
(* service loop of EnhancedAutoCommitter.start, the watchdog callback of   *)
(* ChangeHandler, and attempt_commit, one action per statement group of    *)
(* the method, over an abstract git repository (working tree, index,       *)
(* history, remote): specification Spec.  _should_commit, SecurityScanner  *)
(* and CommitMessageGenerator are also run alone on any input:             *)
(* specifications SpecGate, SpecScanner and SpecMessage.  SpecOnce is the  *)
(* --once run of __main__, SpecShutdown adds KeyboardInterrupt and stop(), *)
(* and SpecPlugin runs the hooks of src/plugins in a chain over successive *)
(* attempts.  SpecStartup is the construction of the service from any      *)
(* config file and repository path, SpecHandler the ChangeHandler over any *)
(* events, SpecReport the violations of any matches, and SpecQuiet         *)
(* _is_quiet_hours on any quiet_hours setting.                             *)
(***************************************************************************)
EXTENDS Integers, Sequences, FiniteSets, TLC

VARIABLES
    cfg,           \* self.config, fixed after _load_config
    pc,            \* position of each thread
    att,           \* locals and trace of the attempt_commit a thread runs
    dirtyFiles,    \* paths whose working-tree state differs from the index
    staged,        \* paths whose index state differs from HEAD
    history,       \* local commits, oldest first; HEAD is the last
    pushed,        \* number of entries of history the remote holds
    events,        \* filesystem events not yet dispatched by the observer
    last_trigger,  \* ChangeHandler.last_trigger
    now,           \* time.time(), in seconds
    edits,         \* working-tree writes made so far
    merges,        \* remote commits merged by pull so far
    hookLog,       \* plugin hook invocations made so far
    inst,          \* attributes the plugin instances hold
    args,          \* arguments and environment of a function called alone
    result         \* <<what that call returned>>, <<>> before it

vars == <<cfg, pc, att, dirtyFiles, staged, history, pushed, events,
          last_trigger, now, edits, merges, hookLog, inst, args, result>>

----------------------------------------------------------------------------
(* Bounds of the model *)

MaxEdits == 1
MaxStep == 1
MaxMerges == 1
MaxMinFiles == 1
MaxTod == 2

----------------------------------------------------------------------------
(* Paths, as sequences of name parts, so that a suffix test is computed *)

Files == { <<"s", ".py">>, <<"k", ".key">> }

\* the text of each file: "s.py" holds a match of a configured secret pattern
HasSecret(f) == f = <<"s", ".py">>

EndsWith(path, ext) ==
    /\ Len(path) >= Len(ext)
    /\ SubSeq(path, Len(path) - Len(ext) + 1, Len(path)) = ext

blocked_extensions == { <<".key">> }

Threads == {"main", "observer"}

\* the exception classes the handlers tell apart
ExcKinds == {"GitCommandError", "Exception"}

Plugins == <<"P1", "P2">>

\* the plugin classes of src/plugins that keep attributes between their hooks
PluginClasses ==
    {"BugRiskScore", "FilePrioritization", "CommitKarma", "SmartCommitMessage"}

\* a plugin instance after __init__: none of the attributes pre_commit
\* stores exists yet.  has: hasattr(self, <attribute>); of: the changed
\* files the attribute was computed from; by: the number of the attempt
\* whose pre_commit stored it (history of the attribute, no field of the
\* instance)
NoAttributes == [has |-> FALSE, of |-> <<>>, by |-> 0]

NewPlugins == [p \in PluginClasses |-> NoAttributes]

----------------------------------------------------------------------------
(* SecurityScanner *)

\* what a file holds, one symbol per stretch of bytes: a NUL byte, text that
\* no pattern matches, text that the named secret pattern matches
Symbols == {"nul", "txt", "api_key"}

\* security.secret_patterns, in configured order
secret_patterns == << "api_key" >>

\* the 1024 of f.read(1024), in symbols
ChunkSize == 1

\* the files the service works on; a file that cannot be opened (deleted,
\* no permission, path relative to another directory) is not readable, and
\* one that vanishes can be opened by _is_binary_file and no more after it
Disk ==
    [f \in Files |->
        [readable |-> TRUE, vanishes |-> FALSE,
         content |-> IF HasSecret(f) THEN << "api_key" >> ELSE << "txt" >>]]

\* the SecurityScanner object: what __init__ takes from the configuration
Scanner ==
    [secret_patterns |-> secret_patterns,
     blocked_extensions |-> blocked_extensions]

\* _is_binary_file that finds no file binary
IsBinaryFile_Never(disk, file_path) == FALSE

\* _is_binary_file: a NUL byte in the first chunk; True when open() raises
IsBinaryFile(disk, file_path) ==
    IF ~ disk[file_path].readable THEN TRUE
    ELSE \E i \in 1..ChunkSize :
             /\ i <= Len(disk[file_path].content)
             /\ disk[file_path].content[i] = "nul"

\* pattern.findall(content): the matched texts, in order of appearance; the
\* text of a matching symbol is the symbol
FindAll(pattern, content) ==
    LET found == SelectSeq(content, LAMBDA b : b = pattern)
    IN  [i \in DOMAIN found |-> << found[i] >>]

\* the 50 of match[:50] and of len(match) > 50
ReportLength == 50

\* the match stored in full
ReportedMatch_Whole(match) == match

\* match[:50] + '...' if len(match) > 50 else match
ReportedMatch(match) ==
    IF Len(match) > ReportLength
    THEN SubSeq(match, 1, ReportLength) \o << ".", ".", "." >>
    ELSE match

\* one potential_secret violation per match, in order
RECURSIVE SecretViolations(_, _, _)
SecretViolations(file_path, pattern, matches) ==
    IF matches = <<>> THEN <<>>
    ELSE << [file |-> file_path, type |-> "potential_secret",
             pattern |-> pattern, match |-> ReportedMatch(Head(matches)),
             severity |-> "medium"] >>
         \o SecretViolations(file_path, pattern, Tail(matches))

\* for pattern in self.secret_patterns: the violations of every pattern
RECURSIVE ContentViolations(_, _, _)
ContentViolations(file_path, patterns, content) ==
    IF patterns = <<>> THEN <<>>
    ELSE SecretViolations(file_path, Head(patterns),
                          FindAll(Head(patterns), content))
         \o ContentViolations(file_path, Tail(patterns), content)

\* open(file_path, 'r', ...) of the scan raises: the except Exception of the
\* loop body logs a warning and the loop goes on
OpenRaises(disk, file_path) ==
    ~ disk[file_path].readable \/ disk[file_path].vanishes

\* the body of the loop with the binary test moved before the extension test
ScanFile_BinaryFirst(scanner, disk, file_path) ==
    IF IsBinaryFile(disk, file_path) THEN <<>>
    ELSE IF \E ext \in scanner.blocked_extensions : EndsWith(file_path, ext)
    THEN << [file |-> file_path, type |-> "blocked_extension",
             severity |-> "high"] >>
    ELSE IF OpenRaises(disk, file_path) THEN <<>>
    ELSE ContentViolations(file_path, scanner.secret_patterns,
                           disk[file_path].content)

\* the body of the loop of scan_for_secrets, for one file_path: what it
\* appends to violations.  A file that is_binary_file passed is read whole
ScanFile(scanner, disk, file_path) ==
    IF \E ext \in scanner.blocked_extensions : EndsWith(file_path, ext)
    THEN << [file |-> file_path, type |-> "blocked_extension",
             severity |-> "high"] >>
    ELSE IF IsBinaryFile(disk, file_path) THEN <<>>
    ELSE IF OpenRaises(disk, file_path) THEN <<>>
    ELSE ContentViolations(file_path, scanner.secret_patterns,
                           disk[file_path].content)

\* the try of scan_for_secrets put around the loop: the exception of one
\* file ends the scan
RECURSIVE scan_for_secrets_StopsAtError(_, _, _)
scan_for_secrets_StopsAtError(scanner, disk, file_paths) ==
    IF file_paths = <<>> THEN <<>>
    ELSE LET file_path == Head(file_paths)
         IN  IF /\ ~ \E ext \in scanner.blocked_extensions :
                        EndsWith(file_path, ext)
                /\ ~ IsBinaryFile(disk, file_path)
                /\ OpenRaises(disk, file_path)
             THEN <<>>
             ELSE ScanFile(scanner, disk, file_path)
                  \o scan_for_secrets_StopsAtError(scanner, disk,
                                                   Tail(file_paths))

\* scan_for_secrets: the violations of each file, in the order of file_paths
RECURSIVE scan_for_secrets(_, _, _)
scan_for_secrets(scanner, disk, file_paths) ==
    IF file_paths = <<>> THEN <<>>
    ELSE ScanFile(scanner, disk, Head(file_paths))
         \o scan_for_secrets(scanner, disk, Tail(file_paths))

\* a scanner whose secret_patterns can be walked once only (a generator in
\* place of the list): the first call uses them up
ScannerAfterScan_Exhausted(scanner, file_paths) ==
    IF file_paths = <<>> THEN scanner
    ELSE [scanner EXCEPT !.secret_patterns = <<>>]

\* the scanner object after scan_for_secrets: the method assigns no attribute
ScannerAfterScan(scanner, file_paths) == scanner

\* is_safe_to_commit with the severity test lost: every scan is safe
is_safe_to_commit_NoVeto(scanner, disk, file_paths) ==
    << TRUE, scan_for_secrets(scanner, disk, file_paths) >>

\* is_safe_to_commit that takes any violation for a reason to block
is_safe_to_commit_Strict(scanner, disk, file_paths) ==
    LET violations == scan_for_secrets(scanner, disk, file_paths)
    IN  << Len(violations) = 0, violations >>

\* is_safe_to_commit: <<safe, violations>>
is_safe_to_commit(scanner, disk, file_paths) ==
    LET violations == scan_for_secrets(scanner, disk, file_paths)
        high_severity == SelectSeq(violations, LAMBDA v : v.severity = "high")
    IN  << Len(high_severity) = 0, violations >>

----------------------------------------------------------------------------
(* CommitMessageGenerator.  A string is a sequence of tokens; a path is its *)
(* parts with "/" between directories; <rocket> stands for U+1F680          *)

\* Path(p).name: what follows the last "/"
BaseName(path) ==
    LET seps == { i \in DOMAIN path : path[i] = "/" }
    IN  IF seps = {} THEN path
        ELSE SubSeq(path,
                    (CHOOSE i \in seps : \A j \in seps : j <= i) + 1,
                    Len(path))

\* the tokens str.strip() takes for whitespace, and the quotes of
\* strip('"\'')
Whitespace == { " ", "\n" }
Quotes == { "\"", "'" }

RECURSIVE LStrip(_, _)
LStrip(str, chars) ==
    IF str # <<>> /\ Head(str) \in chars THEN LStrip(Tail(str), chars)
    ELSE str

RECURSIVE RStrip(_, _)
RStrip(str, chars) ==
    IF str # <<>> /\ str[Len(str)] \in chars
    THEN RStrip(SubSeq(str, 1, Len(str) - 1), chars)
    ELSE str

\* str.strip(chars)
Strip(str, chars) == RStrip(LStrip(str, chars), chars)

\* _generate_template_message with the whole path in place of its name
TemplateMessage_FullPath(changed_files) ==
    LET file_count == Len(changed_files)
    IN  IF file_count = 1
        THEN << "auto: update " >> \o changed_files[1]
        ELSE << "auto: update ", ToString(file_count), " files", " <rocket>" >>

\* _generate_template_message
TemplateMessage(changed_files) ==
    LET file_count == Len(changed_files)
    IN  IF file_count = 1
        THEN << "auto: update " >> \o BaseName(changed_files[1])
        ELSE << "auto: update ", ToString(file_count), " files", " <rocket>" >>

\* CommitMessageGenerator.__init__: AI stays enabled only with the openai
\* library installed and OPENAI_API_KEY set
Generator(enabled, library, api_key) ==
    [ai_enabled |-> enabled /\ library /\ api_key]

\* what self.client.chat.completions.create and the reading of its response
\* can do: raise (timeout, API error), answer without choices (IndexError),
\* answer with content None (AttributeError), answer with a content
BackendFailures == { "api_error", "no_choices", "none_content" }

\* except Exception narrowed to the errors of the API call
AiHandlerCatches_ApiOnly(e) == e = "api_error"

\* except Exception in _generate_ai_message
AiHandlerCatches(e) == e \in BackendFailures

\* _generate_ai_message: [raised, val]; val <<>> is None or the empty string,
\* which generate_commit_message does not tell apart
GenerateAiMessage(backend) ==
    IF backend.kind = "content"
    THEN [raised |-> FALSE,
          val |-> Strip(Strip(backend.content, Whitespace), Quotes)]
    ELSE IF AiHandlerCatches(backend.kind)
    THEN [raised |-> FALSE, val |-> <<>>]
    ELSE [raised |-> TRUE, val |-> <<>>]

\* generate_commit_message: [raised, val]
generate_commit_message(generator, backend, changed_files, diff_content) ==
    IF generator.ai_enabled /\ diff_content # <<>>
    THEN LET ai_message == GenerateAiMessage(backend)
         IN  IF ai_message.raised THEN ai_message
             ELSE IF ai_message.val # <<>> THEN ai_message
             ELSE [raised |-> FALSE, val |-> TemplateMessage(changed_files)]
    ELSE [raised |-> FALSE, val |-> TemplateMessage(changed_files)]

\* attempt_commit, lines 355-359: the staged diff is read and the message
\* generated inside try / bare except, which puts a fixed message in place
CommitMessage(generator, backend, changed_files, diff) ==
    LET made == generate_commit_message(generator, backend, changed_files,
                                        diff.content)
    IN  IF diff.raises \/ made.raised
        THEN << "auto: update ", ToString(Len(changed_files)), " files",
                " <rocket>" >>
        ELSE made.val

----------------------------------------------------------------------------
(* Gate: _is_quiet_hours and _should_commit *)

\* _is_quiet_hours without the branch for a window that spans midnight
IsQuietHours_NoWrap(quiet_config, tod) ==
    IF quiet_config = <<>> THEN FALSE
    ELSE quiet_config[1] <= tod /\ tod <= quiet_config[2]

\* a configured time stands for the text of its hour; dt_time.fromisoformat
\* takes the hours of a day and raises ValueError for every other text
FromIsoformatRaises(text) == text \notin 0..MaxTod

\* _is_quiet_hours whose except clause answers True
IsQuietHours_FailClosed(quiet_config, tod) ==
    IF quiet_config = <<>> THEN FALSE
    ELSE IF FromIsoformatRaises(quiet_config[1])
            \/ FromIsoformatRaises(quiet_config[2])
    THEN TRUE
    ELSE IF quiet_config[1] <= quiet_config[2]
         THEN quiet_config[1] <= tod /\ tod <= quiet_config[2]
         ELSE tod >= quiet_config[1] \/ tod <= quiet_config[2]

\* quiet_config is <<>> (not configured) or <<start, end>>; tod is the
\* current time of day
IsQuietHours(quiet_config, tod) ==
    IF quiet_config = <<>> THEN FALSE
    ELSE IF FromIsoformatRaises(quiet_config[1])
            \/ FromIsoformatRaises(quiet_config[2])
    THEN \* except: return False
         FALSE
    ELSE IF quiet_config[1] <= quiet_config[2]
         THEN quiet_config[1] <= tod /\ tod <= quiet_config[2]
         ELSE tod >= quiet_config[1] \/ tod <= quiet_config[2]

\* _should_commit without the test of max_files_per_commit
ShouldCommitVerdict_NoMax(c, file_count, tod) ==
    IF IsQuietHours(c.quiet, tod) THEN "quiet"
    ELSE IF file_count < c.min_files THEN "few"
    ELSE "ok"

\* _should_commit, as the reason of its verdict: "ok" is True, the rest False
ShouldCommitVerdict(c, file_count, tod) ==
    IF IsQuietHours(c.quiet, tod) THEN "quiet"
    ELSE IF file_count < c.min_files THEN "few"
    ELSE IF file_count > c.max_files THEN "many"
    ELSE "ok"

ShouldCommit(c, changed_files, tod) ==
    ShouldCommitVerdict(c, Cardinality(changed_files), tod) = "ok"

----------------------------------------------------------------------------
(* The except clauses of attempt_commit *)

\* the inner try/except left out: nothing is caught around the pull
PullHandlerCatches_None(e) == FALSE

\* except GitCommandError around remote() and pull()
PullHandlerCatches(e) == e = "GitCommandError"

\* except GitCommandError around the pull/push block
PushHandlerCatches(e) == e = "GitCommandError"

\* except GitCommandError in place of except Exception
OuterHandlerCatches_GitOnly(e) == e = "GitCommandError"

\* except Exception around the whole method
OuterHandlerCatches(e) == e \in ExcKinds

----------------------------------------------------------------------------
(* State *)

\* the locals of one attempt_commit call and what the call has done so far
NoAttempt ==
    [changed |-> {}, checked |-> FALSE, gate |-> "none", viol |-> <<>>,
     ops |-> <<>>, staged |-> FALSE, created |-> 0, origin |-> FALSE,
     pull |-> "none", pullExc |-> "none", push |-> "none",
     orphan |-> FALSE, outcome |-> "none", result |-> FALSE,
     startup |-> FALSE]

\* a window that spans midnight
QuietConfigs == { <<MaxTod, 0>> }

Configs ==
    [monitoring : BOOLEAN,            \* file_monitoring.enabled
     sched : BOOLEAN,                 \* scheduling.enabled
     scan : BOOLEAN,                  \* security.scan_for_secrets
     min_files : 0..MaxMinFiles,      \* commit_behavior.min_files_for_commit
     max_files : {2},                 \* commit_behavior.max_files_per_commit
     quiet : QuietConfigs,            \* scheduling.quiet_hours
     plugins : {Plugins}]             \* plugins.enabled

\* the state after EnhancedAutoCommitter.__init__, before start(): any
\* configuration, any changes of the working tree not yet staged
Init ==
    /\ cfg \in Configs
    /\ pc = [t \in Threads |-> IF t = "main" THEN "start" ELSE "off"]
    /\ att = [t \in Threads |-> NoAttempt]
    /\ dirtyFiles \in SUBSET Files
    /\ staged = {}
    /\ history = <<>>
    /\ pushed = 0
    /\ events = <<>>
    /\ last_trigger = [p \in {} |-> 0]
    /\ now = 0
    /\ edits = 0
    /\ merges = 0
    /\ hookLog = <<>>
    /\ inst = NewPlugins
    /\ args = <<>>
    /\ result = <<>>

\* HEAD, as a position of history (0: the commit the service started on)
HEAD == Len(history)

----------------------------------------------------------------------------
(* The environment: writers of the working tree *)

\* a file of the working tree is created or modified; a started observer
\* receives the event
Edit(f) ==
    /\ edits < MaxEdits
    /\ edits' = edits + 1
    /\ dirtyFiles' = dirtyFiles \cup {f}
    /\ events' = IF pc["observer"] # "off" THEN Append(events, f) ELSE events
    /\ UNCHANGED <<cfg, pc, att, staged, history, pushed, last_trigger, now,
                   merges, hookLog, inst,
                   args, result>>

----------------------------------------------------------------------------
(* EnhancedAutoCommitter.start and the observer thread *)

\* file_monitoring.debounce_seconds, a configured number of seconds
debounce_time == 2

\* start() without the attempt_commit() call that follows the registration
\* of the job
Start_NoImmediate ==
    /\ pc["main"] = "start"
    /\ pc' = [pc EXCEPT
                !["main"] = "loop",
                !["observer"] = IF cfg.monitoring THEN "idle" ELSE "off"]
    /\ UNCHANGED <<cfg, att, dirtyFiles, staged, history, pushed, events,
                   last_trigger, now, edits, merges, hookLog, inst,
                   args, result>>

\* start(): observer.start() when an observer was set up, then, with scheduling
\* enabled, the job is registered and attempt_commit is called at once
Start ==
    /\ pc["main"] = "start"
    /\ pc' = [pc EXCEPT
                !["main"] = IF cfg.sched THEN "is_dirty" ELSE "loop",
                !["observer"] = IF cfg.monitoring THEN "idle" ELSE "off"]
    /\ att' = [att EXCEPT
                 !["main"] = [NoAttempt EXCEPT !.startup = cfg.sched]]
    /\ UNCHANGED <<cfg, dirtyFiles, staged, history, pushed, events,
                   last_trigger, now, edits, merges, hookLog, inst,
                   args, result>>

\* the loop of start(): schedule.run_pending() only without an observer; the
\* registered job is attempt_commit
SchedulerTick ==
    /\ pc["main"] = "loop"
    /\ ~ cfg.monitoring
    /\ cfg.sched
    /\ pc' = [pc EXCEPT !["main"] = "is_dirty"]
    /\ att' = [att EXCEPT !["main"] = NoAttempt]
    /\ UNCHANGED <<cfg, dirtyFiles, staged, history, pushed, events,
                   last_trigger, now, edits, merges, hookLog, inst,
                   args, result>>

\* the test of _handle_change with one window for all paths: the latest
\* trigger of any path suppresses the event
Debounced_AnyPath(file_path, current_time) ==
    \E p \in DOMAIN last_trigger :
        current_time - last_trigger[p] < debounce_time

\* the test of _handle_change with its return left out
Debounced_Never(file_path, current_time) == FALSE

\* the test of _handle_change: the path has triggered less than
\* debounce_time ago
Debounced(file_path, current_time) ==
    /\ file_path \in DOMAIN last_trigger
    /\ current_time - last_trigger[file_path] < debounce_time

\* ChangeHandler._handle_change up to time.sleep(1): the per-path debounce.
\* current_time = time.time() is read at some time not before the last reading
HandleChange ==
    /\ pc["observer"] = "idle"
    /\ pc["main"] \notin {"stopping", "stopped", "dead"}
    /\ events # <<>>
    /\ \E current_time \in now..(now + MaxStep) :
         LET file_path == Head(events) IN
         /\ now' = current_time
         /\ events' = Tail(events)
         /\ IF Debounced(file_path, current_time)
            THEN UNCHANGED <<pc, att, last_trigger>>
            ELSE /\ last_trigger' =
                       [p \in DOMAIN last_trigger \cup {file_path} |->
                            IF p = file_path THEN current_time
                            ELSE last_trigger[p]]
                 /\ pc' = [pc EXCEPT !["observer"] = "sleep"]
                 /\ att' = [att EXCEPT !["observer"] = NoAttempt]
    /\ UNCHANGED <<cfg, dirtyFiles, staged, history, pushed, edits, merges,
                   hookLog, inst,
                   args, result>>

\* time.sleep(1) is over: self.callback(), which is attempt_commit, is called
\* on the observer thread
Callback ==
    /\ pc["observer"] = "sleep"
    /\ now' = now + 1
    /\ pc' = [pc EXCEPT !["observer"] = "is_dirty"]
    /\ UNCHANGED <<cfg, att, dirtyFiles, staged, history, pushed, events,
                   last_trigger, edits, merges, hookLog, inst,
                   args, result>>

----------------------------------------------------------------------------
(* attempt_commit, statement by statement, run by thread t *)

\* attempt_commit without its return True: the attempt ends with a result
\* that is not True
Returned_NoTrue(a, outcome) ==
    [a EXCEPT !.outcome = outcome, !.result = FALSE]

\* attempt_commit that reports True as soon as its commit exists, whatever
\* became of the push
Returned_TrueOnceCommitted(a, outcome) ==
    [a EXCEPT !.outcome = outcome, !.result = (a.created > 0)]

\* return False / return True: the attempt ends with this outcome
Returned(a, outcome) ==
    [a EXCEPT !.outcome = outcome, !.result = (outcome = "committed")]

\* Thrown with the failure of the commit swallowed: the attempt goes on to
\* the remote
Thrown_CommitSwallowed(a, site, e) ==
    IF site = "commit" THEN << "pull", a >>
    ELSE IF site \in {"remote", "pull"} /\ PullHandlerCatches(e)
    THEN << "push", a >>
    ELSE IF site \in {"remote", "pull", "push"} /\ PushHandlerCatches(e)
    THEN << "ret", Returned(a, "pushfailed") >>
    ELSE IF OuterHandlerCatches(e)
    THEN << "ret", Returned(a, "failed") >>
    ELSE << "crashed", a >>

\* Thrown with a handler of the push that tries the push again
Thrown_RetryPush(a, site, e) ==
    IF site \in {"remote", "pull"} /\ PullHandlerCatches(e)
    THEN << "push", a >>
    ELSE IF site = "push" /\ PushHandlerCatches(e)
    THEN << "push", a >>
    ELSE IF site \in {"remote", "pull"} /\ PushHandlerCatches(e)
    THEN << "ret", Returned(a, "pushfailed") >>
    ELSE IF OuterHandlerCatches(e)
    THEN << "ret", Returned(a, "failed") >>
    ELSE << "crashed", a >>

\* where an exception of class e raised at site goes: the position the thread
\* continues at and its locals there
Thrown(a, site, e) ==
    IF site \in {"remote", "pull"} /\ PullHandlerCatches(e)
    THEN \* logged as a warning, the push follows
         << "push", a >>
    ELSE IF site \in {"remote", "pull", "push"} /\ PushHandlerCatches(e)
    THEN << "ret", Returned(a, "pushfailed") >>
    ELSE IF OuterHandlerCatches(e)
    THEN << "ret", Returned(a, "failed") >>
    ELSE << "crashed", a >>

Raise(t, site, e) ==
    /\ pc' = [pc EXCEPT ![t] = Thrown(att[t], site, e)[1]]
    /\ att' = [att EXCEPT ![t] = Thrown(att[t], site, e)[2]]

\* is_dirty that also counts commits the remote does not have
IsDirtyRepo_Unpushed ==
    staged # {} \/ dirtyFiles # {} \/ pushed < Len(history)

\* repo.is_dirty(untracked_files=True): index against HEAD, working tree
\* against index, untracked files
IsDirtyRepo == staged # {} \/ dirtyFiles # {}

\* the index holds what an attempt staged and then failed to commit
Orphaned ==
    /\ staged # {}
    /\ \A u \in Threads : pc[u] # "commit"

IsDirty(t) ==
    /\ pc[t] = "is_dirty"
    /\ \/ \E e \in ExcKinds : Raise(t, "is_dirty", e)
       \/ /\ ~ IsDirtyRepo
          /\ pc' = [pc EXCEPT ![t] = "ret"]
          /\ att' = [att EXCEPT ![t] = Returned(@, "nochanges")]
       \/ /\ IsDirtyRepo
          /\ pc' = [pc EXCEPT ![t] = "evaluate"]
          /\ att' = [att EXCEPT ![t].checked = TRUE,
                                ![t].orphan = Orphaned /\ dirtyFiles = {}]
    /\ UNCHANGED <<cfg, dirtyFiles, staged, history, pushed, events,
                   last_trigger, now, edits, merges, hookLog, inst,
                   args, result>>

\* _get_changed_files: repo.index.diff(None) and repo.untracked_files
ChangedFiles == dirtyFiles

\* the order in which git lists paths
PathOrder == << <<"k", ".key">>, <<"s", ".py">> >>

\* changed_files as the list that _get_changed_files returns
AsList(paths) == SelectSeq(PathOrder, LAMBDA f : f \in paths)

\* attempt_commit with git add moved before the policy checks and the scan
Evaluate_StageFirst(t) ==
    /\ pc[t] = "evaluate"
    /\ staged' = staged \cup dirtyFiles
    /\ dirtyFiles' = {}
    /\ \E tod \in 0..MaxTod :
         LET changed_files == dirtyFiles
             verdict == ShouldCommitVerdict(cfg, Cardinality(changed_files),
                                            tod)
             a == [att[t] EXCEPT !.changed = changed_files,
                                 !.gate = verdict]
         IN  IF verdict # "ok"
             THEN /\ pc' = [pc EXCEPT ![t] = "ret"]
                  /\ att' = [att EXCEPT ![t] = Returned(a, "gate")]
             ELSE /\ pc' = [pc EXCEPT ![t] = "commit"]
                  /\ att' = [att EXCEPT ![t] = [a EXCEPT !.staged = TRUE]]
    /\ UNCHANGED <<cfg, history, pushed, events, last_trigger, now, edits,
                   merges, hookLog, inst, args, result>>

\* changed_files = self._get_changed_files(), the gate and the security scan:
\* the snapshot is taken and then judged without touching the repository
Evaluate(t) ==
    /\ pc[t] = "evaluate"
    /\ \/ \E e \in ExcKinds : Raise(t, "evaluate", e)
       \/ \E tod \in 0..MaxTod :
            LET changed_files == ChangedFiles
                verdict == ShouldCommitVerdict(cfg,
                               Cardinality(changed_files), tod)
                r == is_safe_to_commit(Scanner, Disk, AsList(changed_files))
                a == [att[t] EXCEPT !.changed = changed_files,
                                    !.gate = verdict]
            IN  IF ~ ShouldCommit(cfg, changed_files, tod)
                THEN /\ pc' = [pc EXCEPT ![t] = "ret"]
                     /\ att' = [att EXCEPT ![t] = Returned(a, "gate")]
                ELSE IF cfg.scan /\ ~ r[1]
                THEN /\ pc' = [pc EXCEPT ![t] = "ret"]
                     /\ att' = [att EXCEPT
                                  ![t] = Returned([a EXCEPT !.viol = r[2]],
                                                  "blocked")]
                ELSE /\ pc' = [pc EXCEPT ![t] = "stage"]
                     /\ att' = [att EXCEPT
                                  ![t] = [a EXCEPT
                                            !.viol = IF cfg.scan THEN r[2]
                                                     ELSE <<>>]]
    /\ UNCHANGED <<cfg, dirtyFiles, staged, history, pushed, events,
                   last_trigger, now, edits, merges, hookLog, inst,
                   args, result>>

\* self.repo.git.add(all=True): the whole working tree as it is now
Stage(t) ==
    /\ pc[t] = "stage"
    /\ \/ /\ \E e \in ExcKinds :
               /\ pc' = [pc EXCEPT ![t] = Thrown(att[t], "stage", e)[1]]
               /\ att' = [att EXCEPT
                            ![t] = [Thrown(att[t], "stage", e)[2] EXCEPT
                                      !.ops = Append(@, "stage")]]
          /\ UNCHANGED <<dirtyFiles, staged>>
       \/ /\ staged' = staged \cup dirtyFiles
          /\ dirtyFiles' = {}
          /\ pc' = [pc EXCEPT ![t] = "commit"]
          /\ att' = [att EXCEPT ![t].ops = Append(@, "stage"),
                                ![t].staged = TRUE]
    /\ UNCHANGED <<cfg, history, pushed, events, last_trigger, now, edits,
                   merges, hookLog, inst,
                   args, result>>

\* commit = self.repo.index.commit(commit_message): the message is made
\* inside its own try/except and cannot end the attempt; the commit takes
\* what the index holds
Commit(t) ==
    /\ pc[t] = "commit"
    /\ \/ /\ \E e \in ExcKinds :
               /\ pc' = [pc EXCEPT ![t] = Thrown(att[t], "commit", e)[1]]
               /\ att' = [att EXCEPT
                            ![t] = [Thrown(att[t], "commit", e)[2] EXCEPT
                                      !.ops = Append(@, "commit")]]
          /\ UNCHANGED <<staged, history>>
       \/ /\ history' = Append(history, [by |-> t, files |-> staged])
          /\ staged' = {}
          /\ pc' = [pc EXCEPT ![t] = "pull"]
          /\ att' = [att EXCEPT ![t].ops = Append(@, "commit"),
                                ![t].created = Len(history) + 1]
    /\ UNCHANGED <<cfg, dirtyFiles, pushed, events, last_trigger, now, edits,
                   merges, hookLog, inst,
                   args, result>>

\* origin = self.repo.remote(name=remote_name); origin.pull(branch_name):
\* the remote is not resolved, or the pull fails, finds nothing new, or merges
\* what the remote has on top of HEAD
Pull(t) ==
    /\ pc[t] = "pull"
    /\ \/ /\ \E e \in ExcKinds :
               /\ pc' = [pc EXCEPT ![t] = Thrown(att[t], "remote", e)[1]]
               /\ att' = [att EXCEPT
                            ![t] = [Thrown(att[t], "remote", e)[2] EXCEPT
                                      !.pull = "remote_raised",
                                      !.pullExc = e]]
          /\ UNCHANGED <<history, merges>>
       \/ /\ \E e \in ExcKinds :
               /\ pc' = [pc EXCEPT ![t] = Thrown(att[t], "pull", e)[1]]
               /\ att' = [att EXCEPT
                            ![t] = [Thrown(att[t], "pull", e)[2] EXCEPT
                                      !.ops = Append(@, "pull"),
                                      !.origin = TRUE,
                                      !.pull = "pull_raised",
                                      !.pullExc = e]]
          /\ UNCHANGED <<history, merges>>
       \/ /\ pc' = [pc EXCEPT ![t] = "push"]
          /\ att' = [att EXCEPT ![t].ops = Append(@, "pull"),
                                ![t].origin = TRUE,
                                ![t].pull = "ok"]
          /\ \/ UNCHANGED <<history, merges>>
             \/ /\ merges < MaxMerges
                /\ merges' = merges + 1
                /\ history' = Append(history, [by |-> "remote", files |-> {}])
    /\ UNCHANGED <<cfg, dirtyFiles, staged, pushed, events, last_trigger, now,
                   edits, hookLog, inst,
                   args, result>>

\* a handler that takes the commit of the attempt back (git reset)
HistoryAfterPushFailure_Reset(t) == SubSeq(history, 1, att[t].created - 1)

\* what except GitCommandError / except Exception leave of the local history
\* when the push raised: they log and return False
HistoryAfterPushFailure(t) == history

\* origin.push(branch_name); the name origin is unbound when remote() raised
Push(t) ==
    /\ pc[t] = "push"
    /\ IF ~ att[t].origin
       THEN /\ Raise(t, "unbound", "Exception")
            /\ UNCHANGED <<pushed, history>>
       ELSE \/ /\ \E e \in ExcKinds :
                    /\ pc' = [pc EXCEPT
                                ![t] = Thrown(att[t], "push", e)[1]]
                    /\ att' = [att EXCEPT
                                 ![t] = [Thrown(att[t], "push", e)[2] EXCEPT
                                           !.ops = Append(@, "push"),
                                           !.push = "raised"]]
               /\ history' = HistoryAfterPushFailure(t)
               /\ UNCHANGED pushed
            \/ /\ pushed' = Len(history)
               /\ pc' = [pc EXCEPT ![t] = "ret"]
               /\ att' = [att EXCEPT
                            ![t] = Returned([@ EXCEPT
                                               !.ops = Append(@, "push"),
                                               !.push = "ok"],
                                            "committed")]
               /\ UNCHANGED history
    /\ UNCHANGED <<cfg, dirtyFiles, staged, events, last_trigger, now, edits,
                   merges, hookLog, inst,
                   args, result>>

\* attempt_commit has returned to its caller: the loop of start() on the main
\* thread, the dispatch loop of the observer
Return(t) ==
    /\ pc[t] = "ret"
    /\ pc' = [pc EXCEPT ![t] = IF t = "main" THEN "loop" ELSE "idle"]
    /\ att' = [att EXCEPT ![t] = NoAttempt]
    /\ UNCHANGED <<cfg, dirtyFiles, staged, history, pushed, events,
                   last_trigger, now, edits, merges, hookLog, inst,
                   args, result>>

----------------------------------------------------------------------------

Next ==
    \/ \E f \in Files : Edit(f)
    \/ Start
    \/ SchedulerTick
    \/ HandleChange
    \/ Callback
    \/ \E t \in Threads :
         \/ IsDirty(t)
         \/ Evaluate(t)
         \/ Stage(t)
         \/ Commit(t)
         \/ Pull(t)
         \/ Push(t)
         \/ Return(t)

Spec == Init /\ [][Next]_vars

----------------------------------------------------------------------------
(* Shutdown: KeyboardInterrupt in the main thread, and stop() *)

\* KeyboardInterrupt is raised in the main thread, in the loop of start() or
\* in the statement of attempt_commit it is executing.  It is no Exception:
\* the handlers of attempt_commit let it pass and the attempt ends where it
\* is.  Raised under the startup attempt (line 410, outside the try) it
\* leaves start() and ends the process, and the observer thread, a daemon,
\* ends with it wherever it is; raised in the loop it is caught at line 418
\* and stop() is called
Interrupt ==
    /\ pc["main"] \in {"loop", "is_dirty", "evaluate", "stage", "commit",
                       "pull", "push"}
    /\ IF pc["main"] = "loop"
       THEN /\ pc' = [pc EXCEPT !["main"] = "stopping"]
            /\ UNCHANGED att
       ELSE IF att["main"].startup
       THEN /\ pc' = [t \in Threads |->
                        IF t = "main" THEN "dead"
                        ELSE IF pc[t] \in {"off", "idle"} THEN "off"
                        ELSE "killed"]
            /\ att' = [t \in Threads |->
                         IF t = "main" \/ pc[t] \notin {"off", "idle", "sleep"}
                         THEN [att[t] EXCEPT !.outcome = "interrupted"]
                         ELSE att[t]]
       ELSE /\ pc' = [pc EXCEPT !["main"] = "stopping"]
            /\ att' = [att EXCEPT !["main"].outcome = "interrupted"]
    /\ UNCHANGED <<cfg, dirtyFiles, staged, history, pushed, events,
                   last_trigger, now, edits, merges, hookLog, inst,
                   args, result>>

\* stop(): self.running = False, observer.stop() and observer.join(), which
\* returns once the handler the observer thread is in has returned
Stop ==
    /\ pc["main"] = "stopping"
    /\ pc["observer"] \in {"off", "idle"}
    /\ pc' = [pc EXCEPT !["main"] = "stopped", !["observer"] = "off"]
    /\ UNCHANGED <<cfg, att, dirtyFiles, staged, history, pushed, events,
                   last_trigger, now, edits, merges, hookLog, inst,
                   args, result>>

NextShutdown ==
    \/ Next
    \/ Interrupt
    \/ Stop

SpecShutdown == Init /\ [][NextShutdown]_vars

----------------------------------------------------------------------------
(* Startup: __main__ constructs EnhancedAutoCommitter and calls start() *)

\* the file --config names: absent, not YAML, not text in the encoding of
\* open(), empty (safe_load gives None), or a configuration
ConfigFiles == {"missing", "yaml_error", "undecodable", "empty", "ok"}

\* repository.path: no directory, a directory that is no repository, a bare
\* repository, or a repository with a working tree
RepoPaths == {"no_dir", "not_a_repo", "bare", "ok"}

\* what open() and yaml.safe_load raise in _load_config
LoadConfigRaises(config_file) ==
    CASE config_file = "missing" -> "FileNotFoundError"
      [] config_file = "yaml_error" -> "YAMLError"
      [] config_file = "undecodable" -> "UnicodeDecodeError"
      [] OTHER -> "none"

\* _load_config with a handler for the missing file only
LoadConfigCatches_Missing == {"FileNotFoundError"}

\* the exceptions _load_config turns into AutoCommitterError
LoadConfigCatches == {"FileNotFoundError", "YAMLError"}

\* the process before EnhancedAutoCommitter(args.config): args holds the
\* configuration file and the repository path it names
InitStartup ==
    /\ cfg \in Configs
    /\ pc = [t \in Threads |-> IF t = "main" THEN "load_config" ELSE "off"]
    /\ att = [t \in Threads |-> NoAttempt]
    /\ dirtyFiles \in SUBSET Files
    /\ staged = {}
    /\ history = <<>>
    /\ pushed = 0
    /\ events = <<>>
    /\ last_trigger = [p \in {} |-> 0]
    /\ now = 0
    /\ edits = 0
    /\ merges = 0
    /\ hookLog = <<>>
    /\ inst = NewPlugins
    /\ \E config_file \in ConfigFiles, repo_path \in RepoPaths :
         args = << config_file, repo_path >>
    /\ result = <<>>

\* an exception leaves __init__: result holds its class
RaiseAtStartup(exc) ==
    /\ pc' = [pc EXCEPT !["main"] = "raised"]
    /\ result' = << exc >>

\* self.config = self._load_config(config_path)
LoadConfig ==
    /\ pc["main"] = "load_config"
    /\ LET exc == LoadConfigRaises(args[1])
       IN  IF exc = "none"
           THEN /\ pc' = [pc EXCEPT !["main"] = "setup_logging"]
                /\ UNCHANGED result
           ELSE IF exc \in LoadConfigCatches
           THEN RaiseAtStartup("AutoCommitterError")
           ELSE RaiseAtStartup(exc)
    /\ UNCHANGED <<cfg, att, dirtyFiles, staged, history, pushed, events,
                   last_trigger, now, edits, merges, hookLog, inst, args>>

\* self._setup_logging(): self.config.get on the None of an empty file
SetupLogging ==
    /\ pc["main"] = "setup_logging"
    /\ IF args[1] = "empty"
       THEN RaiseAtStartup("AttributeError")
       ELSE /\ pc' = [pc EXCEPT !["main"] = "init_components"]
            /\ UNCHANGED result
    /\ UNCHANGED <<cfg, att, dirtyFiles, staged, history, pushed, events,
                   last_trigger, now, edits, merges, hookLog, inst, args>>

\* self._initialize_components(): os.path.isdir, Repo(repo_path), repo.bare;
\* whatever the try raises is raised again as AutoCommitterError
InitializeComponents ==
    /\ pc["main"] = "init_components"
    /\ IF args[2] = "ok"
       THEN /\ pc' = [pc EXCEPT !["main"] = "start"]
            /\ UNCHANGED result
       ELSE RaiseAtStartup("AutoCommitterError")
    /\ UNCHANGED <<cfg, att, dirtyFiles, staged, history, pushed, events,
                   last_trigger, now, edits, merges, hookLog, inst, args>>

\* except AutoCommitterError / except Exception of __main__: exit(1)
MainCatch ==
    /\ pc["main"] = "raised"
    /\ pc' = [pc EXCEPT !["main"] = "exited"]
    /\ result' = << result[1], "1" >>
    /\ UNCHANGED <<cfg, att, dirtyFiles, staged, history, pushed, events,
                   last_trigger, now, edits, merges, hookLog, inst, args>>

NextStartup ==
    \/ LoadConfig
    \/ SetupLogging
    \/ InitializeComponents
    \/ MainCatch
    \/ Next

SpecStartup == InitStartup /\ [][NextStartup]_vars

----------------------------------------------------------------------------
(* --once: __main__ calls attempt_commit once and exits with its result *)

\* the state after EnhancedAutoCommitter.__init__ in a process started with
\* --once: an observer may have been set up, it is never started
InitOnce ==
    /\ cfg \in Configs
    /\ pc = [t \in Threads |-> IF t = "main" THEN "once" ELSE "off"]
    /\ att = [t \in Threads |-> NoAttempt]
    /\ dirtyFiles \in SUBSET Files
    /\ staged = {}
    /\ history = <<>>
    /\ pushed = 0
    /\ events = <<>>
    /\ last_trigger = [p \in {} |-> 0]
    /\ now = 0
    /\ edits = 0
    /\ merges = 0
    /\ hookLog = <<>>
    /\ inst = NewPlugins
    /\ args = <<>>
    /\ result = <<>>

\* success = committer.attempt_commit()
RunOnce ==
    /\ pc["main"] = "once"
    /\ pc' = [pc EXCEPT !["main"] = "is_dirty"]
    /\ att' = [att EXCEPT !["main"] = NoAttempt]
    /\ UNCHANGED <<cfg, dirtyFiles, staged, history, pushed, events,
                   last_trigger, now, edits, merges, hookLog, inst,
                   args, result>>

\* an exit code that does not depend on the attempt
ExitCode_Always0(success) == 0

\* 0 if success else 1
ExitCode(success) == IF success THEN 0 ELSE 1

\* exit(0 if success else 1): result holds the exit code of the process
Exit ==
    /\ pc["main"] = "ret"
    /\ pc' = [pc EXCEPT !["main"] = "exited"]
    /\ result' = << ExitCode(att["main"].result) >>
    /\ UNCHANGED <<cfg, att, dirtyFiles, staged, history, pushed, events,
                   last_trigger, now, edits, merges, hookLog, inst, args>>

NextOnce ==
    \/ \E f \in Files : Edit(f)
    \/ RunOnce
    \/ IsDirty("main")
    \/ Evaluate("main")
    \/ Stage("main")
    \/ Commit("main")
    \/ Pull("main")
    \/ Push("main")
    \/ Exit

SpecOnce == InitOnce /\ [][NextOnce]_vars

----------------------------------------------------------------------------
(* _should_commit called alone: any thresholds, any quiet hours, any change *)
(* set, at any time of day                                                  *)

MaxFiles == 3

\* the variables of the service, which a function called alone leaves alone
progVars == <<pc, att, dirtyFiles, staged, history, pushed, events,
              last_trigger, now, edits, merges, hookLog, inst>>

\* the service as constructed and never started
NotStarted ==
    /\ pc = [t \in Threads |-> IF t = "main" THEN "start" ELSE "off"]
    /\ att = [t \in Threads |-> NoAttempt]
    /\ dirtyFiles = {}
    /\ staged = {}
    /\ history = <<>>
    /\ pushed = 0
    /\ events = <<>>
    /\ last_trigger = [p \in {} |-> 0]
    /\ now = 0
    /\ edits = 0
    /\ merges = 0
    /\ hookLog = <<>>
    /\ inst = NewPlugins

\* scheduling.quiet_hours absent, or any start and end, start > end included
GateConfigs ==
    [monitoring : {FALSE}, sched : {FALSE}, scan : {TRUE},
     min_files : 0..MaxFiles,
     max_files : 0..MaxFiles,
     quiet : {<<>>} \cup ((0..MaxTod) \X (0..MaxTod)),
     plugins : {Plugins}]

\* changed_files is any change set, its paths numbered, of which the gate
\* reads the size only; tod is what datetime.now() gives during the call
InitGate ==
    /\ NotStarted
    /\ cfg \in GateConfigs
    /\ args \in [changed_files : SUBSET (1..MaxFiles), tod : 0..MaxTod]
    /\ result = <<>>

CallShouldCommit ==
    /\ result = <<>>
    /\ result' = << ShouldCommit(cfg, args.changed_files, args.tod) >>
    /\ UNCHANGED <<cfg, progVars, args>>

SpecGate == InitGate /\ [][CallShouldCommit]_vars

----------------------------------------------------------------------------
(* _is_quiet_hours called alone: any scheduling.quiet_hours, any time *)

\* what scheduling.quiet_hours can hold: nothing, or a start and an end of
\* which each is an ISO time or a text that is none
QuietHoursConfigs ==
    [monitoring : {FALSE}, sched : {FALSE}, scan : {TRUE},
     min_files : {1},
     max_files : {MaxFiles},
     quiet : {<<>>} \cup ((-1..MaxTod + 1) \X (-1..MaxTod + 1)),
     plugins : {Plugins}]

InitQuiet ==
    /\ NotStarted
    /\ cfg \in QuietHoursConfigs
    /\ args \in [tod : 0..MaxTod]
    /\ result = <<>>

CallIsQuietHours ==
    /\ result = <<>>
    /\ result' = << IsQuietHours(cfg.quiet, args.tod) >>
    /\ UNCHANGED <<cfg, progVars, args>>

SpecQuiet == InitQuiet /\ [][CallIsQuietHours]_vars

----------------------------------------------------------------------------
(* SecurityScanner called alone: any files, any list of paths, called twice *)

MaxContent == 2
MaxPaths == 2

\* the sequences over S of length at most n
SeqsUpTo(S, n) == UNION { [1..k -> S] : k \in 0..n }

\* a file that can be read holds anything and may vanish before the scan
\* opens it; one that cannot be read holds nothing
FileStates ==
    { [readable |-> TRUE, vanishes |-> v, content |-> c] :
          v \in BOOLEAN, c \in SeqsUpTo(Symbols, MaxContent) }
    \cup { [readable |-> FALSE, vanishes |-> FALSE, content |-> <<>>] }

\* security.secret_patterns and security.blocked_extensions, each set or empty
ScannerConfigs ==
    [secret_patterns : { <<>>, secret_patterns },
     blocked_extensions : { {}, blocked_extensions }]

InitScanner ==
    /\ NotStarted
    /\ cfg \in { c \in Configs : ~ c.monitoring /\ ~ c.sched /\ c.scan
                                 /\ c.min_files = 1 }
    /\ args \in [scanner : ScannerConfigs,
                 disk : [Files -> FileStates],
                 file_paths : SeqsUpTo(Files, MaxPaths)]
    /\ result = <<>>

\* violations = scanner.scan_for_secrets(file_paths); the files stay as they
\* are, they are opened for reading only
CallScan ==
    /\ Len(result) < 2
    /\ result' = Append(result,
                   [fn |-> "scan_for_secrets",
                    ret |-> scan_for_secrets(args.scanner, args.disk,
                                             args.file_paths)])
    /\ args' = [args EXCEPT
                  !.scanner = ScannerAfterScan(args.scanner, args.file_paths)]
    /\ UNCHANGED <<cfg, progVars>>

\* is_safe, violations = scanner.is_safe_to_commit(file_paths)
CallIsSafe ==
    /\ Len(result) < 2
    /\ result' = Append(result,
                   [fn |-> "is_safe_to_commit",
                    ret |-> is_safe_to_commit(args.scanner, args.disk,
                                              args.file_paths)])
    /\ args' = [args EXCEPT
                  !.scanner = ScannerAfterScan(args.scanner, args.file_paths)]
    /\ UNCHANGED <<cfg, progVars>>

SpecScanner == InitScanner /\ [][CallScan \/ CallIsSafe]_vars

----------------------------------------------------------------------------
(* The report of the matches of one pattern in one file, for matched texts   *)
(* of any length                                                             *)

MaxMatchLen == 52
MaxMatches == 2

\* matched texts: n characters, for every n up to MaxMatchLen
MatchTexts == { [i \in 1..n |-> "x"] : n \in 0..MaxMatchLen }

InitReport ==
    /\ NotStarted
    /\ cfg \in { c \in Configs : ~ c.monitoring /\ ~ c.sched /\ c.scan
                                 /\ c.min_files = 1 }
    /\ args \in [file_path : { <<"s", ".py">> },
                 pattern : { "api_key" },
                 matches : SeqsUpTo(MatchTexts, MaxMatches)]
    /\ result = <<>>

\* for match in matches: violations.append({...})
ReportMatches ==
    /\ result = <<>>
    /\ result' = << SecretViolations(args.file_path, args.pattern,
                                     args.matches) >>
    /\ UNCHANGED <<cfg, progVars, args>>

SpecReport == InitReport /\ [][ReportMatches]_vars

----------------------------------------------------------------------------
(* CommitMessageGenerator called alone, and the message step of              *)
(* attempt_commit, with any backend                                          *)

MaxResponse == 2
MaxChanged == 2

MessagePaths == { <<"foo", ".py">>, <<"d", "/", "a", ".py">> }

Backends ==
    { [kind |-> k, content |-> <<>>] : k \in BackendFailures }
    \cup
    { [kind |-> "content", content |-> c] :
          c \in SeqsUpTo({ " ", "\"", "fix: x" }, MaxResponse) }

\* git diff --staged --stat raises, or gives nothing, or gives the statistics
Diffs ==
    { [raises |-> TRUE, content |-> <<>>],
      [raises |-> FALSE, content |-> <<>>],
      [raises |-> FALSE, content |-> << "stat" >>] }

InitMessage ==
    /\ NotStarted
    /\ cfg \in { c \in Configs : ~ c.monitoring /\ ~ c.sched /\ c.scan
                                 /\ c.min_files = 1 }
    /\ args \in [generator : { Generator(e, l, k) : e, l, k \in BOOLEAN },
                 backend : Backends,
                 changed_files : SeqsUpTo(MessagePaths, MaxChanged),
                 diff : Diffs]
    /\ result = <<>>

\* message_generator.generate_commit_message(changed_files, diff_content)
CallGenerate ==
    /\ result = <<>>
    /\ ~ args.diff.raises
    /\ result' = << [fn |-> "generate_commit_message",
                     ret |-> generate_commit_message(args.generator,
                                 args.backend, args.changed_files,
                                 args.diff.content)] >>
    /\ UNCHANGED <<cfg, progVars, args>>

\* attempt_commit after git add: lines 355-359 leave commit_message set
MessageStep ==
    /\ result = <<>>
    /\ result' = << [fn |-> "attempt_commit", at |-> "commit",
                     commit_message |-> CommitMessage(args.generator,
                                 args.backend, args.changed_files,
                                 args.diff)] >>
    /\ UNCHANGED <<cfg, progVars, args>>

\* line 362: self.repo.index.commit(commit_message) is called
CommitStep ==
    /\ result # <<>>
    /\ result[1].fn = "attempt_commit"
    /\ result[1].at = "commit"
    /\ result' = << [result[1] EXCEPT !.at = "committing"] >>
    /\ UNCHANGED <<cfg, progVars, args>>

SpecMessage ==
    InitMessage /\ [][CallGenerate \/ MessageStep \/ CommitStep]_vars

----------------------------------------------------------------------------
(* Plugins: pre_commit and post_commit of src/plugins, called in a chain *)

MaxAttempts == 2
MaxMessage == 4

\* the enabled plugins in configured order: one or two of the classes
Chains ==
    { <<p>> : p \in PluginClasses }
    \cup { c \in PluginClasses \X PluginClasses : c[1] # c[2] }

\* changed_files of an attempt: none, a source file, a file named after a fix
ChangeSets ==
    { <<>>, << <<"a", ".py">> >>, << <<"fix">> >>,
      << <<"a", ".py">>, <<"fix">> >> }

\* the messages a commit is created with: what generate_commit_message
\* returns has no whitespace at either end and is not empty
GeneratedMessages ==
    { m \in SeqsUpTo({ "fix: x", " ", "\n" }, MaxMessage) :
          m # <<>> /\ Strip(m, Whitespace) = m }

\* SmartCommitMessagePlugin._analyze_file_types: some file has an extension
\* of file_type_patterns
HasFileTypes(changed_files) ==
    \E i \in DOMAIN changed_files :
        changed_files[i][Len(changed_files[i])] = ".py"

\* _is_feature_change, _is_bugfix_change, _is_refactor_change: some path
\* holds one of the indicator words
HasChangeTypes(changed_files) ==
    \E i \in DOMAIN changed_files :
        \E j \in DOMAIN changed_files[i] : changed_files[i][j] = "fix"

\* pre_commit of plugin class p on the instance self, in attempt k.
\* BugRiskScorePlugin: _analyze_file_extensions calls os.path.splitext in a
\* module that does not import os, so any non-empty list ends in NameError
\* before risk_score is stored
pre_commit(p, self, changed_files, k) ==
    LET stored == [has |-> TRUE, of |-> changed_files, by |-> k]
    IN  CASE p = "BugRiskScore" ->
               IF changed_files = <<>>
               THEN [raised |-> FALSE, self |-> self]
               ELSE [raised |-> TRUE, self |-> self]
          [] p = "FilePrioritization" ->
               IF changed_files = <<>>
               THEN [raised |-> FALSE, self |-> self]
               ELSE [raised |-> FALSE, self |-> stored]
          [] p = "CommitKarma" -> [raised |-> FALSE, self |-> stored]
          [] p = "SmartCommitMessage" -> [raised |-> FALSE, self |-> stored]

\* str.split('\n')
RECURSIVE SplitLines(_)
SplitLines(str) ==
    LET nl == { i \in DOMAIN str : str[i] = "\n" }
    IN  IF nl = {} THEN << str >>
        ELSE LET i == CHOOSE x \in nl : \A y \in nl : x <= y
             IN  << SubSeq(str, 1, i - 1) >>
                 \o SplitLines(SubSeq(str, i + 1, Len(str)))

\* runs of empty lines become one empty line; after_empty: the line before
\* was empty, or there was none
RECURSIVE CollapseEmpty(_, _)
CollapseEmpty(lines, after_empty) ==
    IF lines = <<>> THEN <<>>
    ELSE IF Head(lines) = <<>>
    THEN (IF after_empty THEN <<>> ELSE << <<>> >>)
         \o CollapseEmpty(Tail(lines), TRUE)
    ELSE << Head(lines) >> \o CollapseEmpty(Tail(lines), FALSE)

RECURSIVE JoinLines(_)
JoinLines(lines) ==
    IF lines = <<>> THEN <<>>
    ELSE Head(lines) \o << "\n" >> \o JoinLines(Tail(lines))

\* the message git stores for commit -m: whitespace at the end of each line
\* removed, empty lines at the start and the end removed, runs of empty
\* lines collapsed, one newline at the end
Cleanup(message) ==
    LET lines == SplitLines(message)
        stripped == [i \in DOMAIN lines |-> RStrip(lines[i], {" "})]
    IN  JoinLines(RStrip(CollapseEmpty(stripped, TRUE), { <<>> }))

\* the text BugRiskScorePlugin, FilePrioritizationPlugin and
\* CommitKarmaPlugin add to the message, each after an empty line
Section ==
    [p \in {"BugRiskScore", "FilePrioritization", "CommitKarma"} |->
        CASE p = "BugRiskScore" -> << "\n", "\n", "Bug Risk Score" >>
          [] p = "FilePrioritization" ->
               << "\n", "\n", "File Prioritization" >>
          [] p = "CommitKarma" ->
               << "\n", "\n", "Commit Karma",
                  "\n", "\n", "Total Karma" >>]

\* new_message = <section>, the message it was to be added to dropped
NewMessage_Replace(message, section) == section

\* new_message = message + <section>
NewMessage(message, section) == message \o section

\* SmartCommitMessagePlugin._enhance_commit_message
EnhanceCommitMessage(self, original_message) ==
    IF Len(SplitLines(original_message)) > 2 THEN original_message
    ELSE RStrip(original_message, Whitespace)
         \o (IF HasFileTypes(self.of)
             THEN << "\n", "\n", "Changed file types" >> ELSE <<>>)
         \o (IF HasChangeTypes(self.of)
             THEN << "\n", "Change type" >> ELSE <<>>)

\* post_commit of plugin class p on the instance self, given a commit with
\* this message: whether it reads the attributes pre_commit stored, whether
\* it amends, and the message it amends with
post_commit(p, self, message) ==
    LET nothing == [reads |-> FALSE, amend |-> FALSE, message |-> message]
        amend(m) == [reads |-> TRUE, amend |-> TRUE, message |-> m]
    IN  IF ~ self.has THEN nothing
        ELSE CASE p \in DOMAIN Section ->
                    amend(NewMessage(message, Section[p]))
               [] p = "SmartCommitMessage" ->
                    LET enhanced_message ==
                            EnhanceCommitMessage(self, message)
                    IN  [reads |-> TRUE,
                         amend |-> enhanced_message # message,
                         message |-> enhanced_message]

\* hooks of this kind called so far in attempt k
HookCalls(hook, k) ==
    Cardinality({ i \in DOMAIN hookLog :
                    hookLog[i].hook = hook /\ hookLog[i].commit = k })

\* plugin instances are created once; no attempt is running
InitPlugin ==
    /\ NotStarted
    /\ cfg \in { [c EXCEPT !.plugins = chain] :
                   c \in { x \in Configs :
                             /\ ~ x.monitoring /\ ~ x.sched /\ ~ x.scan
                             /\ x.min_files = 0 },
                   chain \in Chains }
    /\ args = <<>>
    /\ result = <<>>

\* an attempt begins with its changed files
BeginAttempt ==
    /\ pc["main"] = "start"
    /\ Len(history) < MaxAttempts
    /\ \E changed_files \in ChangeSets : args' = << changed_files >>
    /\ pc' = [pc EXCEPT !["main"] = "pre_commit"]
    /\ UNCHANGED <<cfg, att, dirtyFiles, staged, history, pushed, events,
                   last_trigger, now, edits, merges, hookLog, inst, result>>

\* the next plugin's pre_commit is called; an exception it raises is caught
PreCommitHook ==
    /\ pc["main"] = "pre_commit"
    /\ LET k == Len(history) + 1
           i == HookCalls("pre_commit", k) + 1
       IN  /\ i <= Len(cfg.plugins)
           /\ LET p == cfg.plugins[i]
                  r == pre_commit(p, inst[p], args[1], k)
              IN  /\ inst' = [inst EXCEPT ![p] = r.self]
                  /\ hookLog' = Append(hookLog,
                         [hook |-> "pre_commit", plugin |-> p, commit |-> k,
                          raised |-> r.raised, reads |-> FALSE, by |-> 0,
                          amend |-> FALSE, given |-> <<>>, stored |-> <<>>])
    /\ UNCHANGED <<cfg, pc, att, dirtyFiles, staged, history, pushed, events,
                   last_trigger, now, edits, merges, args, result>>

\* the commit of the attempt is created with a generated message
CreateCommit ==
    /\ pc["main"] = "pre_commit"
    /\ HookCalls("pre_commit", Len(history) + 1) = Len(cfg.plugins)
    /\ \E message \in GeneratedMessages :
         history' = Append(history,
                           [by |-> "main", files |-> {}, message |-> message,
                            created |-> message])
    /\ pc' = [pc EXCEPT !["main"] = "post_commit"]
    /\ UNCHANGED <<cfg, att, dirtyFiles, staged, pushed, events,
                   last_trigger, now, edits, merges, hookLog, inst,
                   args, result>>

\* the next plugin's post_commit is called with the current commit; its
\* repo.git.commit('--amend', '-m', new_message, '--no-edit') replaces the
\* message of HEAD
PostCommitHook ==
    /\ pc["main"] = "post_commit"
    /\ LET k == Len(history)
           i == HookCalls("post_commit", k) + 1
       IN  /\ i <= Len(cfg.plugins)
           /\ LET p == cfg.plugins[i]
                  given == history[k].message
                  r == post_commit(p, inst[p], given)
                  stored == IF r.amend THEN Cleanup(r.message) ELSE given
              IN  /\ history' = [history EXCEPT ![k].message = stored]
                  /\ hookLog' = Append(hookLog,
                         [hook |-> "post_commit", plugin |-> p, commit |-> k,
                          raised |-> FALSE, reads |-> r.reads,
                          by |-> inst[p].by, amend |-> r.amend,
                          given |-> given, stored |-> stored])
    /\ UNCHANGED <<cfg, pc, att, dirtyFiles, staged, pushed, events,
                   last_trigger, now, edits, merges, inst, args, result>>

\* every plugin's post_commit has been called
EndAttempt ==
    /\ pc["main"] = "post_commit"
    /\ HookCalls("post_commit", Len(history)) = Len(cfg.plugins)
    /\ pc' = [pc EXCEPT !["main"] = "start"]
    /\ args' = <<>>
    /\ UNCHANGED <<cfg, att, dirtyFiles, staged, history, pushed, events,
                   last_trigger, now, edits, merges, hookLog, inst, result>>

NextPlugin ==
    \/ BeginAttempt
    \/ PreCommitHook
    \/ CreateCommit
    \/ PostCommitHook
    \/ EndAttempt

SpecPlugin == InitPlugin /\ [][NextPlugin]_vars

----------------------------------------------------------------------------
(* ChangeHandler alone: any events, the callback taken as one step *)

MaxEvents == 3

\* paths under the watched directory; the last one is a directory
HandlerPaths ==
    { <<"src", "/", "a", ".py">>, <<"src", "/", "b", ".py">>,
      <<".git", "/", "index">>, <<"src">> }

Directories == { <<"src">> }

\* the events watchdog dispatches to the handler
RawEvents ==
    { [event_type |-> ty, src_path |-> p, is_directory |-> p \in Directories] :
          ty \in {"modified", "created", "deleted"}, p \in HandlerPaths }

\* file_monitoring.ignore_patterns: none, a directory name, a glob, a star
IgnorePatterns ==
    { <<>>, << <<".git">> >>, << <<"*", ".py">> >>, << <<"*">> >> }

\* sub in str, for strings given as sequences of tokens
Contains(str, sub) ==
    \E i \in 0..(Len(str) - Len(sub)) :
        SubSeq(str, i + 1, i + Len(sub)) = sub

\* should_ignore that looks at no pattern
should_ignore_Never(ignore_patterns, file_path) == FALSE

\* ChangeHandler.should_ignore: pattern.replace('*', '') in file_path
should_ignore(ignore_patterns, file_path) ==
    \E i \in DOMAIN ignore_patterns :
        Contains(file_path,
                 SelectSeq(ignore_patterns[i], LAMBDA tok : tok # "*"))

\* the handler as constructed: cfg is the file_monitoring configuration,
\* result the calls of the callback made so far
InitHandler ==
    /\ cfg \in { [monitoring |-> TRUE, ignore_patterns |-> ip] :
                   ip \in IgnorePatterns }
    /\ pc = [t \in Threads |-> IF t = "main" THEN "loop" ELSE "idle"]
    /\ att = [t \in Threads |-> NoAttempt]
    /\ dirtyFiles = {}
    /\ staged = {}
    /\ history = <<>>
    /\ pushed = 0
    /\ events = <<>>
    /\ last_trigger = [p \in {} |-> 0]
    /\ now = 0
    /\ edits = 0
    /\ merges = 0
    /\ hookLog = <<>>
    /\ inst = NewPlugins
    /\ args = <<>>
    /\ result = <<>>

\* the file system reports an event
Emit ==
    /\ edits < MaxEvents
    /\ edits' = edits + 1
    /\ \E e \in RawEvents : events' = Append(events, e)
    /\ UNCHANGED <<cfg, pc, att, dirtyFiles, staged, history, pushed,
                   last_trigger, now, merges, hookLog, inst, args, result>>

\* the observer thread dispatches the next event: on_modified and on_created
\* call _handle_change for a file that is not ignored, the other event
\* types have the empty handler of FileSystemEventHandler.  args holds the
\* event; hookLog is not used
OnEvent ==
    /\ pc["observer"] = "idle"
    /\ events # <<>>
    /\ \E current_time \in now..(now + MaxStep) :
         LET event == Head(events)
             file_path == event.src_path
         IN  /\ now' = current_time
             /\ events' = Tail(events)
             /\ args' = << event >>
             /\ IF \/ event.event_type \notin {"modified", "created"}
                   \/ event.is_directory
                   \/ should_ignore(cfg.ignore_patterns, file_path)
                   \/ Debounced(file_path, current_time)
                THEN UNCHANGED <<pc, last_trigger>>
                ELSE /\ last_trigger' =
                           [p \in DOMAIN last_trigger \cup {file_path} |->
                                IF p = file_path THEN current_time
                                ELSE last_trigger[p]]
                     /\ pc' = [pc EXCEPT !["observer"] = "sleep"]
    /\ UNCHANGED <<cfg, att, dirtyFiles, staged, history, pushed, edits,
                   merges, hookLog, inst, result>>

\* time.sleep(1), then self.callback() runs and returns, some time later
CallbackReturns ==
    /\ pc["observer"] = "sleep"
    /\ result' = Append(result,
                        [event |-> args[1],
                         trigger |-> last_trigger[args[1].src_path],
                         at |-> now + 1])
    /\ \E duration \in 0..MaxStep : now' = now + 1 + duration
    /\ pc' = [pc EXCEPT !["observer"] = "idle"]
    /\ UNCHANGED <<cfg, att, dirtyFiles, staged, history, pushed, events,
                   last_trigger, edits, merges, hookLog, inst, args>>

NextHandler ==
    \/ Emit
    \/ OnEvent
    \/ CallbackReturns

SpecHandler == InitHandler /\ [][NextHandler]_vars

----------------------------------------------------------------------------
(* Properties *)

\* thread t is between the start of attempt_commit and its return
Executing(t) ==
    pc[t] \in {"is_dirty", "evaluate", "stage", "commit", "pull", "push"}

HighSeverity(violations) ==
    SelectSeq(violations, LAMBDA v : v.severity = "high")

\* the stage, commit or push call of the attempt raised
VcsRaised(a) ==
    \/ a.ops # <<>> /\ a.ops[Len(a.ops)] = "stage" /\ ~ a.staged
    \/ a.ops # <<>> /\ a.ops[Len(a.ops)] = "commit" /\ a.created = 0
    \/ a.push = "raised"

\* C1: single-flight: at most one thread is executing attempt_commit in every
\* reachable state.  Fails: the startup attempt on the main thread and the
\* watchdog callback on the observer thread overlap, no lock is taken.
C1_SingleFlight ==
    Cardinality({ t \in Threads : Executing(t) }) <= 1

\* C2: an attempt whose scan produced a high-severity violation never invokes
\* git add: it has staged nothing and ends blocked, and no attempt that has
\* invoked git add ends blocked by the scanner.
C2_VetoPrecedesStaging ==
    \A t \in Threads :
        /\ HighSeverity(att[t].viol) # <<>> =>
               /\ "stage" \notin { att[t].ops[i] : i \in DOMAIN att[t].ops }
               /\ ~ att[t].staged
               /\ pc[t] = "ret" /\ att[t].outcome = "blocked"
        /\ att[t].outcome = "blocked" => att[t].ops = <<>>

C2_Witness ==
    \E t \in Threads :
        /\ pc[t] = "ret"
        /\ att[t].outcome = "blocked"
        /\ \E i \in DOMAIN att[t].viol :
               /\ att[t].viol[i].severity = "high"
               /\ att[t].viol[i].file \in att[t].changed

\* C3: the commit operation is invoked only in an attempt whose changeSet is
\* non-empty and for which _should_commit returned True.  Fails with
\* min_files_for_commit = 0 when only the index is dirty.
C3_CommitOnlyNonEmptyApproved ==
    \A t \in Threads :
        (\E i \in DOMAIN att[t].ops : att[t].ops[i] = "commit") =>
            att[t].changed # {} /\ att[t].gate = "ok"

\* C4: pull and push are invoked only after the commit of the same attempt
\* was invoked and succeeded; the remote is not even resolved before that.
C4_RemoteOnlyAfterCommit ==
    \A t \in Threads :
        /\ \A i \in DOMAIN att[t].ops :
               att[t].ops[i] \in {"pull", "push"} =>
                   /\ att[t].created > 0
                   /\ \E j \in 1..(i - 1) : att[t].ops[j] = "commit"
        /\ (att[t].origin \/ att[t].pull # "none") => att[t].created > 0
        /\ att[t].outcome \in {"nochanges", "gate", "blocked"} =>
               att[t].ops = <<>>

C4_Witness ==
    \E t \in Threads :
        /\ pc[t] = "ret"
        /\ att[t].ops = <<"stage", "commit", "pull", "push">>
        /\ att[t].created > 0

\* C5: an attempt that starts with a clean working tree while the index holds
\* what a failed attempt staged is not skipped by the no-changes check or by
\* the file-count gate.  Fails: _get_changed_files is empty and 0 < min_files.
C5_OrphanedIndexNotSkipped ==
    \A t \in Threads :
        (pc[t] = "ret" /\ att[t].orphan /\ att[t].changed = {} /\ Orphaned) =>
            /\ att[t].outcome # "nochanges"
            /\ ~ (att[t].outcome = "gate" /\ att[t].gate = "few")

\* C6: no exception leaves attempt_commit: whatever stage raises, the thread
\* reaches the return with a boolean result and an outcome, never an
\* unhandled exception that would end the loop.
C6_AttemptReturns ==
    \A t \in Threads :
        /\ pc[t] # "crashed"
        /\ pc[t] = "ret" =>
               /\ att[t].outcome # "none"
               /\ att[t].result \in BOOLEAN
               /\ att[t].result = (att[t].push = "ok")

C6_Witness ==
    \E t \in Threads :
        /\ pc[t] = "ret"
        /\ att[t].outcome = "failed"
        /\ att[t].pullExc = "Exception"

\* C7 as claimed: whenever the pull step raised, remote resolution included,
\* the push call is invoked.  Fails when remote() raises and when pull raises
\* anything but GitCommandError.
C7_PushAfterAnyPullFailure ==
    \A t \in Threads :
        (pc[t] = "ret" /\ att[t].pull \in {"remote_raised", "pull_raised"}) =>
            \E i \in DOMAIN att[t].ops : att[t].ops[i] = "push"

\* C7 amended: when origin.pull raised GitCommandError, the push call is
\* invoked, and the result is True exactly if the push returned.
C7_PushAfterPullGitError ==
    \A t \in Threads :
        (/\ pc[t] = "ret"
         /\ att[t].pull = "pull_raised"
         /\ att[t].pullExc = "GitCommandError") =>
            /\ \E i \in DOMAIN att[t].ops : att[t].ops[i] = "push"
            /\ att[t].push \in {"ok", "raised"}
            /\ att[t].result = (att[t].push = "ok")

C7_Witness ==
    \E t \in Threads :
        /\ pc[t] = "ret"
        /\ att[t].pull = "pull_raised"
        /\ att[t].pullExc = "GitCommandError"
        /\ att[t].push = "ok"
        /\ att[t].result

C9_SecondPostCommitInvoked ==
    \A t \in Threads :
        (pc[t] = "ret" /\ att[t].created > 0) =>
            \E i \in DOMAIN hookLog :
                /\ hookLog[i].hook = "post_commit"
                /\ hookLog[i].plugin = cfg.plugins[2]

\* C10: when stage, commit or push raised, on_error of every enabled plugin
\* has been invoked when the attempt returns.  Fails: attempt_commit invokes
\* no plugin hook.
C10_OnErrorInvoked ==
    \A t \in Threads :
        (pc[t] = "ret" /\ VcsRaised(att[t])) =>
            \A k \in DOMAIN cfg.plugins :
                \E i \in DOMAIN hookLog :
                    /\ hookLog[i].hook = "on_error"
                    /\ hookLog[i].plugin = cfg.plugins[k]

\* C11: when the push of an attempt succeeded, on_push of every enabled plugin
\* has been invoked exactly once for the commit of the attempt when the
\* attempt returns.  Fails: attempt_commit invokes no plugin hook.
C11_OnPushOncePerPlugin ==
    \A t \in Threads :
        (pc[t] = "ret" /\ att[t].push = "ok") =>
            \A k \in DOMAIN cfg.plugins :
                Cardinality({ i \in DOMAIN hookLog :
                                /\ hookLog[i].hook = "on_push"
                                /\ hookLog[i].plugin = cfg.plugins[k]
                                /\ hookLog[i].commit = att[t].created }) = 1

\* C12: a change set of fewer than min_files_for_commit or more than
\* max_files_per_commit files is rejected by _should_commit, at every time of
\* day and with every quiet-hours setting.
C12_CountOutsideThresholdsRejected ==
    result # <<>> =>
        LET n == Cardinality(args.changed_files)
        IN  (n < cfg.min_files \/ n > cfg.max_files) => result[1] = FALSE

C12_Witness ==
    /\ result = << FALSE >>
    /\ cfg.quiet = <<>>
    /\ Cardinality(args.changed_files) >= cfg.min_files
    /\ Cardinality(args.changed_files) > cfg.max_files

\* the times of day inside the window from start to end, which wraps at
\* midnight when start > end
QuietWindow(start, end) ==
    IF start <= end THEN start..end
    ELSE (start..MaxTod) \cup (0..end)

\* C13: with a quiet window configured, _should_commit returns False at every
\* time inside the window (both ends included, midnight wrap included), and
\* at every time outside it returns True when the file count is within the
\* thresholds.
C13_QuietWindowRejects ==
    (result # <<>> /\ cfg.quiet # <<>>) =>
        LET n == Cardinality(args.changed_files)
            inside == args.tod \in QuietWindow(cfg.quiet[1], cfg.quiet[2])
        IN  /\ inside => result[1] = FALSE
            /\ (~ inside /\ cfg.min_files <= n /\ n <= cfg.max_files) =>
                   result[1] = TRUE

C13_Witness ==
    /\ result = << FALSE >>
    /\ cfg.quiet # <<>>
    /\ cfg.quiet[1] > cfg.quiet[2]
    /\ args.tod <= cfg.quiet[2]
    /\ cfg.min_files <= Cardinality(args.changed_files)
    /\ Cardinality(args.changed_files) <= cfg.max_files

\* file_path ends with one of the scanner's blocked extensions
HasBlockedExtension(scanner, file_path) ==
    \E ext \in scanner.blocked_extensions : EndsWith(file_path, ext)

\* the violation list a call of the scanner returned
ViolationsOf(call) ==
    IF call.fn = "is_safe_to_commit" THEN call.ret[2] ELSE call.ret

\* C14: for every path of file_paths with a blocked extension, whatever the
\* file holds and whether or not it can be read, the scan reports a high
\* blocked_extension violation for the path and none from its content, and
\* is_safe_to_commit returns False.
C14_BlockedExtensionAlwaysHigh ==
    \A i \in DOMAIN result : \A k \in DOMAIN args.file_paths :
        LET file_path == args.file_paths[k]
            violations == ViolationsOf(result[i])
        IN  HasBlockedExtension(args.scanner, file_path) =>
                /\ \E j \in DOMAIN violations :
                       /\ violations[j].file = file_path
                       /\ violations[j].type = "blocked_extension"
                       /\ violations[j].severity = "high"
                /\ \A j \in DOMAIN violations :
                       violations[j].file = file_path =>
                           violations[j].type # "potential_secret"
                /\ result[i].fn = "is_safe_to_commit" =>
                       result[i].ret[1] = FALSE

C14_Witness ==
    \E i \in DOMAIN result :
        /\ result[i].fn = "is_safe_to_commit"
        /\ result[i].ret[1] = FALSE
        /\ args.file_paths = << <<"k", ".key">> >>
        /\ args.scanner = Scanner
        /\ args.disk[<<"k", ".key">>].content = << "nul", "api_key" >>

\* C15: a readable file without a blocked extension that has a NUL byte in
\* its first chunk gets no violation at all, also when a configured pattern
\* matches what it holds.
C15_BinaryFileNotScanned ==
    \A i \in DOMAIN result : \A k \in DOMAIN args.file_paths :
        LET file_path == args.file_paths[k]
            content == args.disk[file_path].content
            violations == ViolationsOf(result[i])
        IN  (/\ ~ HasBlockedExtension(args.scanner, file_path)
             /\ args.disk[file_path].readable
             /\ \E n \in 1..ChunkSize :
                    n <= Len(content) /\ content[n] = "nul") =>
                \A j \in DOMAIN violations : violations[j].file # file_path

C15_Witness ==
    \E i \in DOMAIN result :
        /\ result[i].fn = "scan_for_secrets"
        /\ result[i].ret = <<>>
        /\ args.file_paths = << <<"s", ".py">> >>
        /\ args.scanner = Scanner
        /\ args.disk[<<"s", ".py">>].content = << "nul", "api_key" >>

C16_OnlyHighSeverityBlocks ==
    \A t \in Threads :
        (cfg.scan /\ att[t].gate = "ok") =>
            /\ att[t].outcome = "blocked" <=>
                   HighSeverity(att[t].viol) # <<>>
            /\ (att[t].viol # <<>> /\ HighSeverity(att[t].viol) = <<>>) =>
                   \/ pc[t] = "stage"
                   \/ \E i \in DOMAIN att[t].ops : att[t].ops[i] = "stage"

C16_Witness ==
    \E t \in Threads :
        /\ pc[t] = "commit"
        /\ att[t].staged
        /\ att[t].viol # <<>>
        /\ \A i \in DOMAIN att[t].viol :
               /\ att[t].viol[i].severity = "medium"
               /\ att[t].viol[i].type = "potential_secret"

\* name is what follows the last "/" of path
IsNameOf(name, path) ==
    /\ \A i \in DOMAIN name : name[i] # "/"
    /\ \E k \in DOMAIN path :
           /\ SubSeq(path, k, Len(path)) = name
           /\ k > 1 => path[k - 1] = "/"

\* C18 as claimed: with AI disabled the message is "auto: update <basename>"
\* for one file and "auto: update <N> files", nothing appended, otherwise.
\* Fails: the template for N # 1 ends with " <rocket>".
C18_TemplateExact ==
    \A i \in DOMAIN result :
        (result[i].fn = "generate_commit_message"
         /\ ~ args.generator.ai_enabled) =>
            LET n == Len(args.changed_files)
                val == result[i].ret.val
            IN  IF n = 1
                THEN /\ val # <<>>
                     /\ Head(val) = "auto: update "
                     /\ IsNameOf(Tail(val), args.changed_files[1])
                ELSE val = << "auto: update ", ToString(n), " files" >>

\* C18 amended: with AI disabled the message is "auto: update <basename>"
\* for one file and "auto: update <N> files <rocket>" for N # 1 files.
C18_TemplateWithSuffix ==
    \A i \in DOMAIN result :
        (result[i].fn = "generate_commit_message"
         /\ ~ args.generator.ai_enabled) =>
            LET n == Len(args.changed_files)
                val == result[i].ret.val
            IN  /\ ~ result[i].ret.raised
                /\ IF n = 1
                   THEN /\ val # <<>>
                        /\ Head(val) = "auto: update "
                        /\ IsNameOf(Tail(val), args.changed_files[1])
                   ELSE val = << "auto: update ", ToString(n), " files",
                                 " <rocket>" >>

C18_Witness ==
    /\ result # <<>>
    /\ result[1].fn = "generate_commit_message"
    /\ ~ args.generator.ai_enabled
    /\ Len(args.changed_files) = 2
    /\ result[1].ret.val = << "auto: update ", "2", " files", " <rocket>" >>

\* the backend gives no message: AI off, no diff, a failed or malformed
\* answer, or an answer of whitespace only
BackendYieldsNothing ==
    \/ ~ args.generator.ai_enabled
    \/ args.diff.content = <<>>
    \/ args.backend.kind \in BackendFailures
    \/ \A i \in DOMAIN args.backend.content :
           args.backend.content[i] \in Whitespace

\* C19: generate_commit_message never raises and never returns the empty
\* string, and returns the template message when the backend gives nothing;
\* the message step of attempt_commit always reaches index.commit with a
\* message that is not empty.
C19_MessageNeverFails ==
    \A i \in DOMAIN result :
        /\ result[i].fn = "generate_commit_message" =>
               /\ ~ result[i].ret.raised
               /\ result[i].ret.val # <<>>
               /\ BackendYieldsNothing =>
                      result[i].ret.val = TemplateMessage(args.changed_files)
        /\ result[i].fn = "attempt_commit" =>
               /\ result[i].at \in {"commit", "committing"}
               /\ result[i].commit_message # <<>>

C19_Witness ==
    /\ result # <<>>
    /\ result[1].fn = "attempt_commit"
    /\ result[1].at = "committing"
    /\ args.generator.ai_enabled
    /\ args.diff.content # <<>>
    /\ args.backend.kind = "no_choices"
    /\ Len(args.changed_files) = 1
    /\ result[1].commit_message = TemplateMessage(args.changed_files)

\* C20: an attempt with a non-empty change set that the gate let pass and
\* the scan did not veto, whose git add, commit and push all succeeded, has
\* invoked stage, commit, (pull,) push in this order and returns True with
\* outcome committed.
C20_EndToEndSuccess ==
    \A t \in Threads :
        (/\ pc[t] = "ret"
         /\ att[t].changed # {}
         /\ att[t].gate = "ok"
         /\ HighSeverity(att[t].viol) = <<>>
         /\ att[t].staged
         /\ att[t].created > 0
         /\ att[t].push = "ok") =>
            /\ att[t].result = TRUE
            /\ att[t].outcome = "committed"
            /\ att[t].ops = << "stage", "commit", "pull", "push" >>
            /\ pushed >= att[t].created

C20_Witness ==
    \E t \in Threads :
        /\ pc[t] = "ret"
        /\ att[t].changed = { <<"s", ".py">> }
        /\ att[t].gate = "ok"
        /\ att[t].pull = "ok"
        /\ att[t].push = "ok"
        /\ att[t].outcome = "committed"
        /\ att[t].result

\* C21: the steps of an attempt up to its gate and scan verdict change nothing
\* of the repository: working tree, index, history and remote stay as they
\* are, and an attempt that returns from there has invoked no git add,
\* commit, pull or push.
C21_NoMutationBeforeStaging ==
    [][ \A t \in Threads :
          (pc[t] \in {"is_dirty", "evaluate"} /\ pc'[t] # pc[t]) =>
              /\ dirtyFiles' = dirtyFiles
              /\ staged' = staged
              /\ history' = history
              /\ pushed' = pushed
              /\ pc'[t] = "ret" => att'[t].ops = <<>> ]_vars

C21_Witness ==
    \E t \in Threads :
        /\ pc[t] = "ret"
        /\ att[t].outcome = "blocked"
        /\ att[t].changed = { <<"k", ".key">> }
        /\ dirtyFiles = att[t].changed
        /\ staged = {}
        /\ history = <<>>
        /\ pushed = 0

C25_WatcherNeverRunsVcs ==
    pc["observer"] \notin
        {"is_dirty", "evaluate", "stage", "commit", "pull", "push", "ret"}

\* C27: the files of the commit an attempt created are the changed_files that
\* the attempt evaluated and scanned.  Fails: git add takes the working tree
\* and the index as they are when it runs.
C27_CommittedEqualsScanned ==
    \A t \in Threads :
        (cfg.scan /\ att[t].created > 0) =>
            history[att[t].created].files = att[t].changed

\* C28: while commits wait to be pushed, an attempt that finds the repository
\* clean returns at the no-changes check: it goes to no later step, invokes
\* no pull or push, and the remote stays behind.
C28_CleanAttemptLeavesUnpushed ==
    [][ \A t \in Threads :
          (/\ pc[t] = "is_dirty" /\ pc'[t] # pc[t]
           /\ staged = {} /\ dirtyFiles = {}
           /\ pushed < Len(history)) =>
              /\ pc'[t] = "ret"
              /\ att'[t].outcome \in {"nochanges", "failed"}
              /\ att'[t].ops = <<>>
              /\ ~ att'[t].result
              /\ pushed' = pushed
              /\ history' = history ]_vars

C28_Witness ==
    \E t \in Threads :
        /\ pc[t] = "ret"
        /\ att[t].outcome = "nochanges"
        /\ pushed < Len(history)
        /\ \E i \in DOMAIN history : history[i].by # "remote"

\* C22 as claimed: with --once the exit code is 0 exactly if the attempt
\* created a commit, pushed or not.  Fails: a commit whose push failed gives
\* exit code 1.
C22_ExitZeroIffCommitCreated ==
    pc["main"] = "exited" =>
        (result[1] = 0 <=> att["main"].created > 0)

\* C22 amended: with --once one attempt is run, and the exit code is 0
\* exactly if that attempt created a commit and its push succeeded, and 1
\* otherwise.
C22_ExitZeroIffPushed ==
    /\ pc["main"] = "exited" =>
           /\ result[1] \in {0, 1}
           /\ result[1] = 0 <=>
                  (att["main"].created > 0 /\ att["main"].push = "ok")
    /\ Cardinality({ i \in DOMAIN history : history[i].by = "main" }) <= 1
    /\ pc["observer"] = "off"

C22_Witness ==
    /\ pc["main"] = "exited"
    /\ result = << 1 >>
    /\ att["main"].created > 0
    /\ att["main"].push = "raised"

\* C26: no attempt is ended by the shutdown between its git add and its
\* commit, so that the service does not stop over an index its own attempt
\* staged and did not commit.  Fails: KeyboardInterrupt passes the handlers
\* of an attempt that runs on the main thread.
C26_NoAttemptCancelledMidway ==
    \A t \in Threads :
        ~ (/\ att[t].outcome = "interrupted"
           /\ att[t].staged
           /\ att[t].created = 0)

\* C23: while the service is in its loop with scheduling enabled, the job
\* the timer registered can run, whatever the file monitoring setting: an
\* elapsed interval is followed by an attempt on the main thread.  Fails:
\* with an observer the loop never calls schedule.run_pending().
C23_TimerTriggersAttempt ==
    (pc["main"] = "loop" /\ cfg.sched) => ENABLED SchedulerTick

\* C29: the attributes a plugin's post_commit reads in attempt k were stored
\* by that plugin's pre_commit in attempt k.  Fails: a pre_commit that
\* returns early leaves the attributes of an earlier attempt in place.
C29_PostCommitReadsOwnAttempt ==
    \A i \in DOMAIN hookLog :
        (hookLog[i].hook = "post_commit" /\ hookLog[i].reads)
            => hookLog[i].by = hookLog[i].commit

IsPrefix(a, b) == Len(a) <= Len(b) /\ SubSeq(b, 1, Len(a)) = a

\* the post_commit calls that amended the commit
Amends ==
    { i \in DOMAIN hookLog :
        hookLog[i].hook = "post_commit" /\ hookLog[i].amend }

\* C30 as stated: the message an amending post_commit leaves starts with the
\* message of the commit it was given, up to whitespace at its end.
C30_AppendOnly ==
    \A i \in Amends :
        IsPrefix(RStrip(hookLog[i].given, Whitespace), hookLog[i].stored)

\* C30: the message an amending post_commit leaves starts with the message
\* it was given as git cleans it up (no whitespace at line ends, no runs of
\* empty lines), followed by the plugin's section; a later post_commit of
\* the chain keeps what an earlier one left, and the final message is the
\* generated message or starts with it as cleaned up.
C30_AppendOnlyUpToCleanup ==
    /\ \A i \in Amends :
         LET e == hookLog[i]
             kept == RStrip(Cleanup(e.given), Whitespace)
         IN  /\ IsPrefix(kept, e.stored)
             /\ e.plugin \in DOMAIN Section
                  => e.stored = kept \o Section[e.plugin] \o << "\n" >>
             /\ RStrip(Cleanup(e.given), Whitespace)
                  = RStrip(e.given, Whitespace)
                  => IsPrefix(RStrip(e.given, Whitespace), e.stored)
    /\ \A i \in Amends : \A j \in Amends :
         (i < j /\ hookLog[i].commit = hookLog[j].commit)
            => IsPrefix(RStrip(hookLog[i].stored, Whitespace),
                        hookLog[j].stored)
    /\ \A k \in DOMAIN history :
         \/ history[k].message = history[k].created
         \/ IsPrefix(RStrip(Cleanup(history[k].created), Whitespace),
                     history[k].message)

\* two plugins of a chain have amended the same commit, the second given
\* the message the first left
C30_Witness ==
    \E i \in Amends : \E j \in Amends :
        /\ i < j
        /\ hookLog[i].commit = hookLog[j].commit
        /\ hookLog[j].given = hookLog[i].stored
        /\ hookLog[j].plugin \in DOMAIN Section
        /\ pc["main"] = "start"

\* the configuration file is missing or no YAML, or the repository path it
\* names is no directory, no repository or a bare repository
StartupMustAbort ==
    \/ args[1] \in {"missing", "yaml_error"}
    \/ args[1] = "ok" /\ args[2] # "ok"

Dispatches == pc["observer"] = "idle" /\ events # <<>> /\ events' = Tail(events)

\* the event is one _handle_change is called for, were it not ignored
FileChange(event) ==
    event.event_type \in {"modified", "created"} /\ ~ event.is_directory

\* the paths each configured ignore_patterns list covers
IgnoredPaths(ignore_patterns) ==
    CASE ignore_patterns = <<>> -> {}
      [] ignore_patterns = << <<".git">> >> -> { <<".git", "/", "index">> }
      [] ignore_patterns = << <<"*", ".py">> >> ->
           { <<"src", "/", "a", ".py">>, <<"src", "/", "b", ".py">> }
      [] ignore_patterns = << <<"*">> >> -> HandlerPaths

\* C32: an event on a path that triggered less than debounce_seconds before
\* invokes no callback and leaves last_trigger as it is, and two callbacks
\* for the same path are at least debounce_seconds apart.
C32_PerPathDebounce ==
    [][ /\ Dispatches =>
            LET p == Head(events).src_path
            IN  (/\ p \in DOMAIN last_trigger
                 /\ now' - last_trigger[p] < debounce_time)
                => /\ last_trigger' = last_trigger
                   /\ pc'["observer"] = "idle"
                   /\ result' = result
        /\ \A i \in DOMAIN result' : \A j \in DOMAIN result' :
             (i < j /\ result'[i].event.src_path = result'[j].event.src_path)
                => /\ result'[j].trigger - result'[i].trigger >= debounce_time
                   /\ result'[j].at - result'[i].at >= debounce_time
      ]_vars

\* the last event dispatched is a change of a file that is not ignored, on
\* the path of the last callback and inside its window: it was suppressed
C32_Witness ==
    /\ pc["observer"] = "idle"
    /\ result # <<>>
    /\ args # <<>>
    /\ FileChange(args[1])
    /\ args[1].src_path \notin IgnoredPaths(cfg.ignore_patterns)
    /\ args[1] # result[Len(result)].event
    /\ args[1].src_path = result[Len(result)].event.src_path
    /\ now - last_trigger[args[1].src_path] < debounce_time

\* C37: the first change of a file that is not ignored always leads to the
\* callback, whatever other paths have triggered; callbacks run one after
\* the other, each a stabilization delay after its event, and every path
\* that triggered has had its callback once the handler is idle.
C37_NoCoalescingAcrossPaths ==
    [][ /\ Dispatches =>
            LET e == Head(events)
            IN  (/\ FileChange(e)
                 /\ e.src_path \notin IgnoredPaths(cfg.ignore_patterns)
                 /\ e.src_path \notin DOMAIN last_trigger)
                => /\ pc'["observer"] = "sleep"
                   /\ e.src_path \in DOMAIN last_trigger'
        /\ pc["observer"] = "sleep" =>
             /\ pc'["observer"] = "idle" => Len(result') = Len(result) + 1
        /\ \A i \in DOMAIN result' :
             /\ result'[i].at >= result'[i].trigger + 1
             /\ i > 1 => result'[i].trigger >= result'[i - 1].at
        /\ pc'["observer"] = "idle" =>
             \A p \in DOMAIN last_trigger' :
                 \E i \in DOMAIN result' : result'[i].event.src_path = p
      ]_vars

\* two callbacks for two paths whose events were less than debounce_seconds
\* apart
C37_Witness ==
    \E i \in DOMAIN result : \E j \in DOMAIN result :
        /\ i < j
        /\ result[i].event.src_path # result[j].event.src_path
        /\ result[j].trigger - result[i].trigger < debounce_time

\* C38: an event for a directory or for an ignored path invokes no callback
\* and leaves last_trigger as it is.
C38_IgnoredEventHasNoEffect ==
    [][ Dispatches =>
          LET e == Head(events)
          IN  (\/ e.is_directory
               \/ e.src_path \in IgnoredPaths(cfg.ignore_patterns))
              => /\ last_trigger' = last_trigger
                 /\ pc'["observer"] = "idle"
                 /\ result' = result
      ]_vars

\* a change of an ignored file was dispatched after a callback had been made
\* for another file, and its path has no entry in last_trigger
C38_Witness ==
    /\ pc["observer"] = "idle"
    /\ result # <<>>
    /\ args # <<>>
    /\ FileChange(args[1])
    /\ args[1].src_path \in IgnoredPaths(cfg.ignore_patterns)
    /\ args[1].src_path \notin DOMAIN last_trigger

\* C33: in an attempt git add, commit, pull and push are each called at most
\* once and in this order, and an attempt whose push raised has returned
\* without another push.
C33_NoRetryWithinAttempt ==
    \A t \in Threads :
        /\ IsPrefix(att[t].ops, << "stage", "commit", "pull", "push" >>)
        /\ att[t].push = "raised" =>
             /\ pc[t] \in {"ret", "crashed"}
             /\ att[t].ops[Len(att[t].ops)] = "push"

\* an attempt has returned after its one push raised
C33_Witness ==
    \E t \in Threads :
        /\ pc[t] = "ret"
        /\ att[t].push = "raised"
        /\ att[t].pull = "ok"
        /\ att[t].ops = << "stage", "commit", "pull", "push" >>
        /\ ~ att[t].result

\* the file cannot be opened, or no more when the scan comes to read it
Unreadable(file_path) ==
    ~ args.disk[file_path].readable \/ args.disk[file_path].vanishes

\* C34: a file that cannot be opened or read gets no violation but that of
\* a blocked extension, the violations of the other files are reported as
\* if it were not in the list, and is_safe_to_commit is False only if some
\* file of the list has a blocked extension.
C34_UnreadableFileSkipped ==
    \A i \in DOMAIN result :
        LET violations == ViolationsOf(result[i])
            others == SelectSeq(args.file_paths,
                                LAMBDA f : ~ Unreadable(f))
        IN  /\ \A j \in DOMAIN violations :
                 Unreadable(violations[j].file)
                    => violations[j].type = "blocked_extension"
            /\ SelectSeq(violations, LAMBDA v : ~ Unreadable(v.file))
                 = scan_for_secrets(args.scanner, args.disk, others)
            /\ (result[i].fn = "is_safe_to_commit" /\ ~ result[i].ret[1])
                 => \E k \in DOMAIN args.file_paths :
                        HasBlockedExtension(args.scanner, args.file_paths[k])

\* the scan went past a file that vanished before it was read and reported
\* the secret of the file after it
C34_Witness ==
    \E i \in DOMAIN result :
        /\ result[i].fn = "is_safe_to_commit"
        /\ result[i].ret[1]
        /\ args.scanner = [secret_patterns |-> secret_patterns,
                           blocked_extensions |-> {}]
        /\ args.file_paths = << <<"k", ".key">>, <<"s", ".py">> >>
        /\ args.disk[<<"k", ".key">>] =
               [readable |-> TRUE, vanishes |-> TRUE,
                content |-> << "api_key" >>]
        /\ args.disk[<<"s", ".py">>] =
               [readable |-> TRUE, vanishes |-> FALSE,
                content |-> << "api_key" >>]
        /\ Len(result[i].ret[2]) = 1

C36_TrueIffCommittedAndPushed ==
    \A t \in Threads :
        pc[t] = "ret" =>
            /\ att[t].result \in BOOLEAN
            /\ att[t].result <=> (att[t].created > 0 /\ att[t].push = "ok")

C36_Witness ==
    /\ pc["observer"] = "ret"
    /\ att["observer"].created > 0
    /\ att["observer"].pull = "pull_raised"
    /\ att["observer"].push = "raised"
    /\ att["observer"].result = FALSE

\* C39: quiet hours fail open: when scheduling.quiet_hours is absent, or its
\* start or its end is no ISO time, _is_quiet_hours returns False at every
\* current time.
C39_QuietHoursFailOpen ==
    (/\ result # <<>>
     /\ \/ cfg.quiet = <<>>
        \/ cfg.quiet[1] \notin 0..MaxTod
        \/ cfg.quiet[2] \notin 0..MaxTod) =>
        result[1] = FALSE

C39_Witness ==
    /\ result = << FALSE >>
    /\ cfg.quiet = << 0, MaxTod + 1 >>
    /\ args.tod = 1

====
